---------------------------- MODULE Spec2Model ----------------------------
(***************************************************************************)
(* Model of chainer/computational_graph.py: build_computational_graph,    *)
(* the backward traversal that reconstructs the graph of Variables and     *)
(* Functions reachable from a list of outputs, and ComputationalGraph,     *)
(* the edge set it returns.                                                 *)
(*                                                                         *)
(* A node graph is a sequence of node objects; node n is the n-th element. *)
(* Every node has a kind, a rank, a creator (Variables only, None for a   *)
(* Variable without one) and its inputs (Functions only).                  *)
(***************************************************************************)
EXTENDS Integers, Sequences, FiniteSets, TLC

(* ---------------------------- bounds ---------------------------------- *)
\* number of nodes of an enumerated node graph
MaxNodes == 3
\* greatest length of the inputs list of an enumerated (non-Split) Function
MaxInputs == 2
\* greatest length of the outputs argument
MaxOutputs == 2

(* ---------------------------- node model ------------------------------ *)
\* Python's None (a Variable without creator)
None == 0
\* the local variable `creator` before its first assignment
Unbound == -1

\* isinstance(n, variable.Variable)
IsVariable(g, n) == g[n].kind = "Variable"
\* isinstance(n, function.Function): Split is a subclass of Function
IsFunction(g, n) == g[n].kind \in {"Function", "Split"}
\* isinstance(n, function.Split); isinstance(None, function.Split) is False
IsSplit(g, n) == n \in DOMAIN g /\ g[n].kind = "Split"

VariableNode(c, r) == [kind |-> "Variable", creator |-> c, inputs |-> <<>>, rank |-> r]
FunctionNode(ins, r) == [kind |-> "Function", creator |-> None, inputs |-> ins, rank |-> r]
SplitNode(v, r) == [kind |-> "Split", creator |-> None, inputs |-> <<v>>, rank |-> r]

SeqsUpTo(k, S) == UNION {[1..m -> S] : m \in 0..k}

Max(S) == CHOOSE x \in S : \A y \in S : y <= x

\* the rank the runtime gives a Variable: one more than its creator's, 0 without
VariableRank(p, c) == IF c = None THEN 0 ELSE p[c].rank + 1
\* the rank the runtime gives a Function: the greatest rank of its inputs
FunctionRank(p, ins) == Max({0} \cup {p[ins[i]].rank : i \in DOMAIN ins})

\* the node objects that can follow the prefix p of a node graph: links only
\* point to earlier nodes, so every enumerated graph is acyclic
NextNodes(p) ==
  LET vs == {m \in DOMAIN p : p[m].kind = "Variable"}
      fs == {m \in DOMAIN p : p[m].kind # "Variable"}
  IN  {VariableNode(c, VariableRank(p, c)) : c \in {None} \cup fs}
      \cup {FunctionNode(ins, FunctionRank(p, ins)) : ins \in SeqsUpTo(MaxInputs, vs)}
      \cup {SplitNode(v, FunctionRank(p, <<v>>)) : v \in vs}

RECURSIVE GraphsOfSize(_)
GraphsOfSize(n) ==
  IF n = 0 THEN {<<>>}
  ELSE UNION {{Append(p, nd) : nd \in NextNodes(p)} : p \in GraphsOfSize(n - 1)}

\*                      |--> x'  ---> f'  ---> y
\*  x ---> (splitter) --+
\*                      |--> x'' ---> f'' ---> z
\* nodes: x = 1, splitter = 2, x' = 3, x'' = 4, f' = 5, f'' = 6, y = 7, z = 8
FanOutGraph ==
  << VariableNode(None, 0), SplitNode(1, 0),
     VariableNode(2, 1), VariableNode(2, 1),
     FunctionNode(<<3>>, 1), FunctionNode(<<4>>, 1),
     VariableNode(5, 2), VariableNode(6, 2) >>

\* x -> Split1 -> x1 -> Split2 -> x2 -> f -> y
\* nodes: x = 1, Split1 = 2, x1 = 3, Split2 = 4, x2 = 5, f = 6, y = 7
SplitChainGraph ==
  << VariableNode(None, 0), SplitNode(1, 0), VariableNode(2, 1),
     SplitNode(3, 1), VariableNode(4, 2), FunctionNode(<<5>>, 2),
     VariableNode(6, 3) >>

\* x -> Split -> x', x'' ; f(x', x'') -> y
\* nodes: x = 1, Split = 2, x' = 3, x'' = 4, f = 5, y = 6
SharedSplitGraph ==
  << VariableNode(None, 0), SplitNode(1, 0),
     VariableNode(2, 1), VariableNode(2, 1),
     FunctionNode(<<3, 4>>, 1), VariableNode(5, 2) >>

\* f() -> y1, y2 ; g(y1, y2) -> z : a Function with two outputs
\* nodes: f = 1, y1 = 2, y2 = 3, g = 4, z = 5
TwoOutputGraph ==
  << FunctionNode(<<>>, 0), VariableNode(1, 1), VariableNode(1, 1),
     FunctionNode(<<2, 3>>, 1), VariableNode(4, 2) >>

Fixtures == {FanOutGraph, SplitChainGraph, SharedSplitGraph, TwoOutputGraph}

\* the same nodes with every rank 0: pops are in push order
Flat(g) == [n \in DOMAIN g |-> [g[n] EXCEPT !.rank = 0]]
\* the same nodes with the ranks negated: sources are popped first
Inverted(g) == [n \in DOMAIN g |-> [g[n] EXCEPT !.rank = 0 - @]]

\* the node graphs a build is run on: every graph of MaxNodes nodes with the
\* runtime's ranks, and the larger fixtures under three rank assignments
Graphs ==
  GraphsOfSize(MaxNodes) \cup Fixtures
    \cup {Flat(g) : g \in Fixtures} \cup {Inverted(g) : g \in Fixtures}

\* the kinds and links of a node graph, without the ranks
Shape(g) ==
  [n \in DOMAIN g |-> [kind |-> g[n].kind, creator |-> g[n].creator, inputs |-> g[n].inputs]]

Formats == {"dot", "xml"}

\* no text: dump returned None, raised, or has not been called
NoText == [open |-> "", body |-> {}, close |-> ""]

\* dump has not been called
NotDumped == [format |-> "", outcome |-> "not called", text |-> NoText]

(* ---------------------------- state ----------------------------------- *)
VARIABLES
  graph,        \* the node objects (read only)
  outputs,      \* argument outputs
  remove_split, \* argument remove_split
  oi,           \* position of `for o in outputs`
  cands,        \* the heap: a set of entries <<-rank, push_count, node>>
  push_count,   \* push_count[0]
  seen_edges,   \* seen_edges
  creator,      \* the local variable creator
  recorded,     \* history: the pairs passed to seen_edges.add, in order
  pops,         \* history: number of heappop calls
  split_pops,   \* history: number of pops that took a `continue` of a Split
  pc,           \* "run", "done" (returned), "error" (raised)
  error,        \* the exception raised, "" when none
  dumped        \* outcome of dump(format) on the returned graph

vars == <<graph, outputs, remove_split, oi, cands, push_count, seen_edges,
          creator, recorded, pops, split_pops, pc, error, dumped>>

(* ---------------------------- heap ------------------------------------ *)
\* heapq orders entries as tuples: by -rank, then by push_count
EntryLess(a, b) == a[1] < b[1] \/ (a[1] = b[1] /\ a[2] < b[2])

\* the entry heapq.heappop returns
HeapTop(cs) == CHOOSE e \in cs : \A f \in cs : f = e \/ EntryLess(e, f)

\* add_cand pushing the rank itself instead of its negation
add_cand_RankNotNegated(st, g, cand) ==
  [st EXCEPT !.cands = @ \cup {<<g[cand].rank, st.push_count, cand>>},
             !.push_count = @ + 1]

\* add(cand): heappush(cands, (-cand.rank, push_count[0], cand)); push_count[0] += 1
add_cand(st, g, cand) ==
  [st EXCEPT !.cands = @ \cup {<<0 - g[cand].rank, st.push_count, cand>>},
             !.push_count = @ + 1]

\* variant: every edge is recorded in both directions
add_edge_BothWays(st, e) ==
  [st EXCEPT !.seen_edges = @ \cup {e, <<e[2], e[1]>>}, !.recorded = Append(@, e)]

\* seen_edges.add(e)
add_edge(st, e) ==
  [st EXCEPT !.seen_edges = @ \cup {e}, !.recorded = Append(@, e)]

\* the locals of build_computational_graph that a loop iteration updates
Locals == [cands |-> cands, push_count |-> push_count, seen_edges |-> seen_edges,
           creator |-> creator, recorded |-> recorded]

SetLocals(st) ==
  /\ cands' = st.cands
  /\ push_count' = st.push_count
  /\ seen_edges' = st.seen_edges
  /\ creator' = st.creator
  /\ recorded' = st.recorded

(* ---------------------------- build ----------------------------------- *)
\* RemovesSplit with `remove_split and` dropped
RemovesSplit_IgnoreFlag(rs, g, n) == IsSplit(g, n)

\* remove_split and isinstance(n, function.Split)
RemovesSplit(rs, g, n) == rs /\ IsSplit(g, n)

\* EffectiveInput substituting the Split itself instead of the Split's input
EffectiveInput_SplitItself(g, rs, input_) ==
  LET cr == g[input_].creator
  IN  IF cr # None /\ RemovesSplit(rs, g, cr) THEN cr ELSE input_

\* EffectiveInput without the substitution of the Split's input
EffectiveInput_NoSubst(g, rs, input_) == input_

\* the input a Function edge is recorded for
EffectiveInput(g, rs, input_) ==
  LET cr == g[input_].creator
  IN  IF cr # None /\ RemovesSplit(rs, g, cr) THEN g[cr].inputs[1] ELSE input_

\* variant: the guard asks whether the input has an edge recorded already,
\* whatever the edge leads to
InputIsNew_NodeSeen(st, input_, cand) ==
  input_ # cand /\ \A e \in st.seen_edges : e[1] # input_

\* the guard of the inputs loop
InputIsNew(st, input_, cand) == input_ # cand /\ <<input_, cand>> \notin st.seen_edges

\* ForInputs leaving the loop after the first input
ForInputs_FirstOnly(g, rs, cand, ins, st) ==
  IF ins = <<>> THEN st
  ELSE LET input_ == Head(ins)
       IN  IF InputIsNew(st, input_, cand)
           THEN LET eff == EffectiveInput(g, rs, input_)
                    st1 == [st EXCEPT !.creator = g[input_].creator]
                IN  add_edge(add_cand(st1, g, eff), <<eff, cand>>)
           ELSE st

\* for input_ in cand.inputs: ...
RECURSIVE ForInputs(_, _, _, _, _)
ForInputs(g, rs, cand, ins, st) ==
  IF ins = <<>> THEN st
  ELSE LET input_ == Head(ins)
       IN  IF InputIsNew(st, input_, cand)
           THEN LET eff == EffectiveInput(g, rs, input_)
                    st1 == [st EXCEPT !.creator = g[input_].creator]
                IN  ForInputs(g, rs, cand, Tail(ins),
                              add_edge(add_cand(st1, g, eff), <<eff, cand>>))
           ELSE ForInputs(g, rs, cand, Tail(ins), st)

Init ==
  /\ graph \in Graphs
  /\ outputs \in SeqsUpTo(MaxOutputs, DOMAIN graph)
  /\ remove_split \in BOOLEAN
  /\ oi = 1
  /\ cands = {}
  /\ push_count = 0
  /\ seen_edges = {}
  /\ creator = Unbound
  /\ recorded = <<>>
  /\ pops = 0
  /\ split_pops = 0
  /\ pc = "run"
  /\ error = ""
  /\ dumped = NotDumped

Looping == pc = "run" /\ oi > Len(outputs)

Top == HeapTop(cands)
Cand == Top[3]
Popped == [Locals EXCEPT !.cands = cands \ {Top}]

\* for o in outputs: add_cand(o)
AddOutput ==
  /\ pc = "run"
  /\ oi <= Len(outputs)
  /\ SetLocals(add_cand(Locals, graph, outputs[oi]))
  /\ oi' = oi + 1
  /\ UNCHANGED <<graph, outputs, remove_split, pops, split_pops, pc, error, dumped>>

\* PopSplitVariable without `continue`: the edge from the Split is recorded too
PopSplitVariable_FallsThrough ==
  /\ Looping /\ cands # {}
  /\ IsVariable(graph, Cand)
  /\ RemovesSplit(remove_split, graph, graph[Cand].creator)
  /\ LET cr == graph[Cand].creator
         next_cand == graph[cr].inputs[1]
         st == add_cand([Popped EXCEPT !.creator = cr], graph, next_cand)
     IN  IF <<cr, Cand>> \notin seen_edges
         THEN SetLocals(add_edge(add_cand(st, graph, cr), <<cr, Cand>>))
         ELSE SetLocals(st)
  /\ pops' = pops + 1
  /\ split_pops' = split_pops + 1
  /\ UNCHANGED <<graph, outputs, remove_split, oi, pc, error, dumped>>

\* a Variable is popped whose creator is a Split, remove_split set
PopSplitVariable ==
  /\ Looping /\ cands # {}
  /\ IsVariable(graph, Cand)
  /\ RemovesSplit(remove_split, graph, graph[Cand].creator)
  /\ LET cr == graph[Cand].creator
         next_cand == graph[cr].inputs[1]
     IN  SetLocals(add_cand([Popped EXCEPT !.creator = cr], graph, next_cand))
  /\ pops' = pops + 1
  /\ split_pops' = split_pops + 1
  /\ UNCHANGED <<graph, outputs, remove_split, oi, pc, error, dumped>>

\* PopVariable recording the edge without enqueueing the creator
PopVariable_NoFollow ==
  /\ Looping /\ cands # {}
  /\ IsVariable(graph, Cand)
  /\ ~RemovesSplit(remove_split, graph, graph[Cand].creator)
  /\ LET cr == graph[Cand].creator
         st == [Popped EXCEPT !.creator = cr]
     IN  IF cr # None /\ <<cr, Cand>> \notin seen_edges
         THEN SetLocals(add_edge(st, <<cr, Cand>>))
         ELSE SetLocals(st)
  /\ pops' = pops + 1
  /\ UNCHANGED split_pops
  /\ UNCHANGED <<graph, outputs, remove_split, oi, pc, error, dumped>>

\* a Variable is popped, no Split to remove
PopVariable ==
  /\ Looping /\ cands # {}
  /\ IsVariable(graph, Cand)
  /\ ~RemovesSplit(remove_split, graph, graph[Cand].creator)
  /\ LET cr == graph[Cand].creator
         st == [Popped EXCEPT !.creator = cr]
     IN  IF cr # None /\ <<cr, Cand>> \notin seen_edges
         THEN SetLocals(add_edge(add_cand(st, graph, cr), <<cr, Cand>>))
         ELSE SetLocals(st)
  /\ pops' = pops + 1
  /\ UNCHANGED split_pops
  /\ UNCHANGED <<graph, outputs, remove_split, oi, pc, error, dumped>>

\* what `creator.inputs[0]` of the Split branch evaluates to: the exception
\* it raises, or "" and the node
StaleInput(g, cr) ==
  IF cr = Unbound THEN [error |-> "UnboundLocalError", node |-> None]
  ELSE IF cr = None THEN [error |-> "AttributeError", node |-> None]
  ELSE IF g[cr].inputs = <<>> THEN [error |-> "IndexError", node |-> None]
  ELSE [error |-> "", node |-> g[cr].inputs[1]]

\* a Split is popped, remove_split set: next_cand = creator.inputs[0]
PopSplit ==
  /\ Looping /\ cands # {}
  /\ IsFunction(graph, Cand)
  /\ RemovesSplit(remove_split, graph, Cand)
  /\ LET r == StaleInput(graph, creator)
     IN  IF r.error # ""
         THEN /\ SetLocals(Popped)
              /\ pc' = "error"
              /\ error' = r.error
         ELSE /\ SetLocals(add_cand(Popped, graph, r.node))
              /\ UNCHANGED <<pc, error>>
  /\ pops' = pops + 1
  /\ split_pops' = split_pops + 1
  /\ UNCHANGED <<graph, outputs, remove_split, oi, dumped>>

\* a Function is popped: its inputs are enqueued and the edges recorded
PopFunction ==
  /\ Looping /\ cands # {}
  /\ IsFunction(graph, Cand)
  /\ ~RemovesSplit(remove_split, graph, Cand)
  /\ SetLocals(ForInputs(graph, remove_split, Cand, graph[Cand].inputs, Popped))
  /\ pops' = pops + 1
  /\ UNCHANGED split_pops
  /\ UNCHANGED <<graph, outputs, remove_split, oi, pc, error, dumped>>

\* return ComputationalGraph(seen_edges)
Return ==
  /\ Looping /\ cands = {}
  /\ pc' = "done"
  /\ UNCHANGED <<graph, outputs, remove_split, oi, cands, push_count, seen_edges,
                 creator, recorded, pops, split_pops, error, dumped>>

(* ---------------------------- ComputationalGraph ---------------------- *)
\* the assertion of _to_dot on one edge
EdgeKindsOk(g, e) ==
  \/ IsVariable(g, e[1]) /\ IsFunction(g, e[2])
  \/ IsFunction(g, e[1]) /\ IsVariable(g, e[2])

\* DotNode._shape
DotShape(g, n) ==
  IF IsVariable(g, n) THEN "oval" ELSE IF IsSplit(g, n) THEN "hexagon" ELSE "box"

\* DotNode.label, the declaration of a node: its id and its shape attribute
\* (the label attribute is the node's own label, which the build never reads)
DotLabel(g, n) == [id |-> n, shape |-> DotShape(g, n)]

\* what _to_dot appends for one edge: both declarations, then "head -> tail;"
EdgeText(g, e) == <<DotLabel(g, e[1]), DotLabel(g, e[2]), [head |-> e[1], tail |-> e[2]]>>

\* ToDot with the closing brace appended inside the loop over the edges
ToDot_CloseInLoop(g, edges) ==
  [open |-> "digraph graphname{",
   body |-> {EdgeText(g, e) : e \in edges},
   close |-> IF edges = {} THEN "" ELSE "}"]

\* _to_dot: "digraph graphname{", the text of every edge, "}". The edges are
\* a Python set, the order of their texts is its iteration order: the body
\* is kept as the set of the edge texts
ToDot(g, edges) ==
  [open |-> "digraph graphname{",
   body |-> {EdgeText(g, e) : e \in edges},
   close |-> "}"]

\* ComputationalGraph.__len__: len(self.edges)
cg_len(edges) == Cardinality(edges)

\* cg_contains testing the pair in the opposite direction
cg_contains_Reversed(edges, e) == <<e[2], e[1]>> \in edges

\* ComputationalGraph.__contains__: e in self.edges
cg_contains(edges, e) == e \in edges

\* the outcome of dump(format)
DumpOutcome(g, edges, format) ==
  IF format = "dot"
  THEN IF \A e \in edges : EdgeKindsOk(g, e) THEN "returns str"
       ELSE "raises AssertionError"
  ELSE "returns None"

\* the string dump(format) returns, NoText when it returns none
DumpText(g, edges, format) ==
  IF DumpOutcome(g, edges, format) = "returns str" THEN ToDot(g, edges) ELSE NoText

Dump ==
  /\ pc = "done"
  /\ dumped = NotDumped
  /\ \E format \in Formats :
       dumped' = [format |-> format,
                  outcome |-> DumpOutcome(graph, seen_edges, format),
                  text |-> DumpText(graph, seen_edges, format)]
  /\ UNCHANGED <<graph, outputs, remove_split, oi, cands, push_count, seen_edges,
                 creator, recorded, pops, split_pops, pc, error>>

Next ==
  \/ AddOutput
  \/ PopSplitVariable
  \/ PopVariable
  \/ PopSplit
  \/ PopFunction
  \/ Return
  \/ Dump

Spec == Init /\ [][Next]_vars

FairSpec == Spec /\ WF_vars(Next)

(* ---------------------------- reference ------------------------------- *)
Range(q) == {q[i] : i \in DOMAIN q}

\* the nodes an edge set touches
Endpoints(edges) == {e[1] : e \in edges} \cup {e[2] : e \in edges}

\* the nodes backward-reachable from the set R: the creator of a Variable,
\* the inputs of a Function
RECURSIVE ReachFrom(_, _)
ReachFrom(g, R) ==
  LET step == R \cup {g[v].creator : v \in {m \in R : IsVariable(g, m) /\ g[m].creator # None}}
                \cup UNION {Range(g[f].inputs) : f \in {m \in R : IsFunction(g, m)}}
  IN  IF step = R THEN R ELSE ReachFrom(g, step)

BackReach(g, outs) == ReachFrom(g, Range(outs))

\* the reference edge set: (creator(v), v) for every reachable Variable with
\* a creator and (v, op) for every reachable Function and each of its inputs
RefEdges(g, outs) ==
  LET R == BackReach(g, outs)
  IN  {<<g[v].creator, v>> : v \in {m \in R : IsVariable(g, m) /\ g[m].creator # None}}
      \cup UNION {{<<v, f>> : v \in Range(g[f].inputs)} : f \in {m \in R : IsFunction(g, m)}}

\* a Variable that a Split produced
IsSplitOutput(g, n) == IsVariable(g, n) /\ IsSplit(g, g[n].creator)

\* no Split's input is itself produced by a Split
SplitsUnchained(g) == \A s \in DOMAIN g : IsSplit(g, s) => ~IsSplitOutput(g, g[s].inputs[1])

NoSplitIn(outs) == \A i \in DOMAIN outs : ~IsSplit(graph, outs[i])

\* the build has ended, by return or by exception
Ended == pc # "run"

(* ---------------------------- claims ---------------------------------- *)
FanOut == Shape(graph) = Shape(FanOutGraph)
SplitChain == Shape(graph) = Shape(SplitChainGraph)

FanOutBoth(rs) == FanOut /\ outputs = <<7, 8>> /\ remove_split = rs

\* C1: on the fan-out graph, build([y, z], remove_split=True) returns exactly
\* {(x, f'), (f', y), (x, f''), (f'', z)}, and at no time is the splitter, x'
\* or x'' an endpoint of a recorded edge.
C1_FanOutCollapsed ==
  FanOutBoth(TRUE) =>
    /\ Endpoints(seen_edges) \cap {2, 3, 4} = {}
    /\ Ended => pc = "done" /\ seen_edges = {<<1, 5>>, <<5, 7>>, <<1, 6>>, <<6, 8>>}

C1_Witness == FanOutBoth(TRUE) /\ pc = "done" /\ pops > 0

\* C2 as stated: build([y, z], remove_split=False) on the fan-out graph
\* returns exactly 6 edges, with the splitter, x' and x'' among the endpoints.
C2_SixEdges ==
  (FanOutBoth(FALSE) /\ Ended) =>
    /\ pc = "done"
    /\ Cardinality(seen_edges) = 6
    /\ {2, 3, 4} \subseteq Endpoints(seen_edges)

\* C2 amended: build([y, z], remove_split=False) on the fan-out graph returns
\* the full graph, which has exactly 7 edges (x -> splitter, splitter -> x',
\* splitter -> x'', x' -> f', x'' -> f'', f' -> y, f'' -> z), with the
\* splitter, x' and x'' among the endpoints.
C2_FullGraphSevenEdges ==
  (FanOutBoth(FALSE) /\ Ended) =>
    /\ pc = "done"
    /\ seen_edges = {<<1, 2>>, <<2, 3>>, <<2, 4>>, <<3, 5>>, <<4, 6>>, <<5, 7>>, <<6, 8>>}
    /\ Cardinality(seen_edges) = 7
    /\ {2, 3, 4} \subseteq Endpoints(seen_edges)

C2_Witness == FanOutBoth(FALSE) /\ pc = "done" /\ pops > 0

\* C3: no node that is not backward-reachable from outputs is ever an endpoint
\* of a recorded edge; on the fan-out graph build([y], remove_split=True)
\* returns exactly {(x, f'), (f', y)}.
C3_ReachabilityPruning ==
  /\ Endpoints(seen_edges) \subseteq BackReach(graph, outputs)
  /\ (FanOut /\ outputs = <<7>> /\ remove_split /\ Ended)
       => pc = "done" /\ seen_edges = {<<1, 5>>, <<5, 7>>}

C3_Witness ==
  /\ FanOut /\ outputs = <<7>> /\ remove_split /\ pc = "done"
  /\ seen_edges # {}
  /\ BackReach(graph, outputs) # DOMAIN graph

\* C4: with remove_split=False the build returns, and the returned edge set
\* equals the reference backward-reachability edge set.
C4_ExactWithoutCollapse ==
  (~remove_split /\ Ended) =>
    pc = "done" /\ seen_edges = RefEdges(graph, outputs)

C4_Witness ==
  /\ ~remove_split /\ pc = "done"
  /\ Cardinality(seen_edges) >= 2
  /\ BackReach(graph, outputs) # DOMAIN graph

\* C5: with remove_split=True, when no Split's input is a Split's output and
\* outputs holds no Split, no recorded edge has a Split or a Split's output as
\* an endpoint, and in the returned graph every reachable consumer of a
\* Split's output is connected to that Split's input.
C5_SplitsCollapsed ==
  (remove_split /\ SplitsUnchained(graph) /\ NoSplitIn(outputs)) =>
    /\ \A n \in Endpoints(seen_edges) : ~IsSplit(graph, n) /\ ~IsSplitOutput(graph, n)
    /\ pc = "done" =>
         \A f \in BackReach(graph, outputs) :
           (IsFunction(graph, f) /\ ~IsSplit(graph, f)) =>
             \A v \in Range(graph[f].inputs) :
               IsSplitOutput(graph, v)
                 => <<graph[graph[v].creator].inputs[1], f>> \in seen_edges

C5_Witness ==
  /\ remove_split /\ SplitsUnchained(graph) /\ NoSplitIn(outputs) /\ pc = "done"
  /\ \E e \in seen_edges :
       \E v \in Range(graph[e[2]].inputs) :
         IsSplitOutput(graph, v) /\ graph[graph[v].creator].inputs[1] = e[1]

\* C6: on the chain x -> Split1 -> x1 -> Split2 -> x2 -> f -> y with
\* remove_split=True, the edge recorded into f is (x, f), and neither Split
\* nor x1 nor x2 is an endpoint of a returned edge.
C6_ChainUnwound ==
  (SplitChain /\ outputs = <<7>> /\ remove_split /\ pc = "done") =>
    /\ <<1, 6>> \in seen_edges
    /\ Endpoints(seen_edges) \cap {2, 3, 4, 5} = {}

\* C7: with remove_split=True, the iteration that pops a Split enqueues that
\* Split's own input, records no edge and does not fail.
C7_SplitEnqueuesOwnInput ==
  [][(Looping /\ cands # {} /\ RemovesSplit(remove_split, graph, Cand) /\ pops' = pops + 1)
       => /\ pc' = "run"
          /\ seen_edges' = seen_edges
          /\ cands' = add_cand(Popped, graph, graph[Cand].inputs[1]).cands]_vars

\* C8: dump(format) with a format other than 'dot' raises the
\* unsupported-format error; it never returns.
C8_UnsupportedFormatRaises ==
  (dumped # NotDumped /\ dumped.format # "dot")
    => dumped.outcome = "raises NotImplementedError"

\* C9: no pair is passed to seen_edges.add twice in one build.
C9_NoPairRecordedTwice ==
  \A i, j \in DOMAIN recorded : i # j => recorded[i] # recorded[j]

\* C10: every build returns.
C10_Terminates == <>(pc = "done")

\* C11: every recorded edge joins one Variable and one Function, in either
\* direction, so the assertion of the dot dump never fails on a returned graph.
C11_EdgesAlternate ==
  /\ \A e \in seen_edges : EdgeKindsOk(graph, e)
  /\ dumped.format = "dot" => dumped.outcome = "returns str"

C11_Witness ==
  /\ dumped.format = "dot"
  /\ \E e \in seen_edges : IsVariable(graph, e[1])
  /\ \E e \in seen_edges : IsFunction(graph, e[1])
  /\ \E e \in seen_edges : remove_split /\ e \notin RefEdges(graph, outputs)

\* C13: on the returned graph, contains(e) is true exactly for the pairs
\* recorded during the build, and size() is the number of distinct recorded
\* pairs.
C13_MembershipAndSize ==
  pc = "done" =>
    /\ \A e \in (DOMAIN graph) \X (DOMAIN graph) :
         cg_contains(seen_edges, e) <=> (\E i \in DOMAIN recorded : recorded[i] = e)
    /\ cg_len(seen_edges) = Cardinality({recorded[i] : i \in DOMAIN recorded})

C13_Witness ==
  /\ pc = "done"
  /\ Len(recorded) >= 2
  /\ \E e \in (DOMAIN graph) \X (DOMAIN graph) :
       ~cg_contains(seen_edges, e) /\ cg_contains(seen_edges, <<e[2], e[1]>>)

\* C14: build([]) pops nothing and returns a graph of size 0 whose dot dump
\* is "digraph graphname{" immediately followed by "}".
C14_EmptyInput ==
  outputs = <<>> =>
    /\ pops = 0
    /\ Ended => pc = "done" /\ cg_len(seen_edges) = 0
    /\ dumped.format = "dot" =>
         /\ dumped.outcome = "returns str"
         /\ dumped.text = [open |-> "digraph graphname{", body |-> {}, close |-> "}"]

C14_Witness == outputs = <<>> /\ pc = "done" /\ dumped.format = "dot"

\* the sequence numbers of the pending entries: below the counter, pairwise
\* different, and the first len(outputs) numbers name the outputs in order
QueueWellNumbered ==
  /\ \A e \in cands : e[2] \in 0..(push_count - 1)
  /\ \A a, b \in cands : a # b => a[2] # b[2]
  /\ \A e \in cands : e[2] < Len(outputs) => e[3] = outputs[e[2] + 1]
  /\ oi <= Len(outputs) => push_count = oi - 1

\* every step numbers the entries it adds from the old counter upwards,
\* one number each
NumbersIncrease ==
  /\ push_count' >= push_count
  /\ \A e \in cands' \ cands : e[2] \in push_count..(push_count' - 1)
  /\ \A a, b \in cands' \ cands : a # b => a[2] # b[2]

\* the entry a pop removes has the greatest rank of the pending entries and,
\* among those of that rank, the smallest sequence number
PoppedIsFirst ==
  LET gone == cands \ cands'
  IN  /\ Cardinality(gone) = 1
      /\ \A p \in gone : \A f \in cands :
           /\ graph[p[3]].rank >= graph[f[3]].rank
           /\ graph[p[3]].rank = graph[f[3]].rank => p[2] <= f[2]

\* C15: every pop takes the pending entry of greatest rank and, among equal
\* ranks, of smallest sequence number; sequence numbers are assigned in
\* increasing order (outputs first, in input order) and never reused.
C15_StablePriorityOrder ==
  /\ []QueueWellNumbered
  /\ [][NumbersIncrease /\ (pops' = pops + 1 => PoppedIsFirst)]_vars

C15_Witness ==
  /\ pops >= 2
  /\ \E a, b \in cands : a # b /\ a[1] = b[1]
  /\ \E a, b \in cands : a[1] # b[1]

\* the Split operations backward-reachable from outputs
ReachableSplits == {n \in BackReach(graph, outputs) : IsSplit(graph, n)}

\* C16 as stated: the number of pops of a build is at most len(outputs) plus
\* the number of edges of the result plus the number of Split operations
\* backward-reachable from outputs.
C16_PopBound ==
  Ended => pops <= Len(outputs) + Cardinality(seen_edges) + Cardinality(ReachableSplits)

\* C16 amended: the number of pops is at most len(outputs) plus the number
\* of edge-recording steps (a pair recorded again counts again) plus the
\* number of pops of a Split or of a Split's output with remove_split set;
\* when the build returns the two sides are equal.
C16_PopBoundByRecordings ==
  /\ pops <= Len(outputs) + Len(recorded) + split_pops
  /\ pc = "done" => pops = Len(outputs) + Len(recorded) + split_pops

C16_Witness ==
  /\ pc = "done"
  /\ split_pops > Cardinality(ReachableSplits)
  /\ Len(recorded) > Cardinality(seen_edges)

\* an edge set with every Split and every Split output deleted, and an edge
\* (in(S), op) added for each deleted path in(S) -> S -> v -> op
Contract(g, edges) ==
  LET Deleted(n) == IsSplit(g, n) \/ IsSplitOutput(g, n)
      kept   == {e \in edges : ~Deleted(e[1]) /\ ~Deleted(e[2])}
      bypass == {<<g[g[e[1]].creator].inputs[1], e[2]>> :
                   e \in {d \in edges :
                            /\ IsSplitOutput(g, d[1])
                            /\ <<g[d[1]].creator, d[1]>> \in edges
                            /\ <<g[g[d[1]].creator].inputs[1], g[d[1]].creator>> \in edges}}
  IN  kept \cup bypass

\* outputs holds neither a Split nor an output of a Split
PlainOutputs ==
  \A i \in DOMAIN outputs :
    ~IsSplit(graph, outputs[i]) /\ ~IsSplitOutput(graph, outputs[i])

\* C17: when every Split has one input, no Split is fed by a Split's output
\* and outputs holds neither a Split nor an output of a Split, the build
\* without collapse returns the reference edge set and the build with
\* collapse returns the contraction of that edge set.
C17_CollapseIsContraction ==
  (pc = "done" /\ SplitsUnchained(graph) /\ PlainOutputs) =>
    seen_edges = IF remove_split
                 THEN Contract(graph, RefEdges(graph, outputs))
                 ELSE RefEdges(graph, outputs)

C17_Witness ==
  /\ pc = "done" /\ remove_split /\ SplitsUnchained(graph) /\ PlainOutputs
  /\ seen_edges # {}
  /\ seen_edges # RefEdges(graph, outputs)
  /\ seen_edges = Contract(graph, RefEdges(graph, outputs))

\* the nodes reachable from the set R along the edges, R included
RECURSIVE Descendants(_, _)
Descendants(edges, R) ==
  LET step == R \cup {e[2] : e \in {d \in edges : d[1] \in R}}
  IN  IF step = R THEN R ELSE Descendants(edges, step)

\* no node reaches itself along one or more edges
Acyclic(edges) ==
  \A n \in Endpoints(edges) :
    n \notin Descendants(edges, {e[2] : e \in {d \in edges : d[1] = n}})

\* the node graph itself: creator and input links as edges
GraphEdges(g) ==
  {<<g[v].creator, v>> : v \in {m \in DOMAIN g : IsVariable(g, m) /\ g[m].creator # None}}
  \cup UNION {{<<v, f>> : v \in Range(g[f].inputs)} : f \in {m \in DOMAIN g : IsFunction(g, m)}}

\* C18: when the node graph is acyclic, under either remove_split setting
\* the recorded edges hold no edge from a node to itself and no directed
\* cycle, at every step and in the returned graph.
C18_ResultIsDag ==
  Acyclic(GraphEdges(graph)) =>
    /\ \A e \in seen_edges : e[1] # e[2]
    /\ Ended => Acyclic(seen_edges)

C18_Witness ==
  /\ pc = "done" /\ remove_split /\ Acyclic(GraphEdges(graph))
  /\ \E e \in seen_edges : e \notin GraphEdges(graph)
  /\ \E e1, e2 \in seen_edges : e1[2] = e2[1]

\* the node an input stands for: with collapse, the input of the Split that
\* produced it
StandsFor(g, rs, v) ==
  IF rs /\ IsSplitOutput(g, v) THEN g[g[v].creator].inputs[1] ELSE v

\* the nodes a visit of n leads to, and the edges it yields; g carries no
\* ranks and a visit does not depend on what was visited before
LeadsTo(g, rs, n) ==
  IF IsVariable(g, n)
  THEN IF g[n].creator = None THEN {}
       ELSE IF rs /\ IsSplit(g, g[n].creator) THEN {g[g[n].creator].inputs[1]}
       ELSE {g[n].creator}
  ELSE {StandsFor(g, rs, v) : v \in Range(g[n].inputs)}

Yields(g, rs, n) ==
  IF IsVariable(g, n)
  THEN IF g[n].creator = None \/ (rs /\ IsSplit(g, g[n].creator)) THEN {}
       ELSE {<<g[n].creator, n>>}
  ELSE {<<StandsFor(g, rs, v), n>> : v \in Range(g[n].inputs)}

RECURSIVE Visited(_, _, _)
Visited(g, rs, R) ==
  LET step == R \cup UNION {LeadsTo(g, rs, n) : n \in R}
  IN  IF step = R THEN R ELSE Visited(g, rs, step)

\* the edge set determined by the links of the graph, the set of output
\* nodes and the flag alone
OrderFreeEdges(g, outs, rs) == UNION {Yields(g, rs, n) : n \in Visited(g, rs, outs)}

\* C19: when outputs holds no Split, the build returns, and the returned
\* edge set is the one determined by the links of the graph, the set of
\* output nodes and remove_split: the ranks of the nodes and the order of
\* outputs do not change it.
C19_RankAndOrderFree ==
  (Ended /\ NoSplitIn(outputs)) =>
    /\ pc = "done"
    /\ seen_edges = OrderFreeEdges(Shape(graph), Range(outputs), remove_split)

C19_Witness ==
  /\ pc = "done" /\ NoSplitIn(outputs)
  /\ \E g \in Fixtures : graph = Inverted(g) /\ graph # g
  /\ Len(outputs) = 2 /\ outputs[1] > outputs[2]
  /\ Cardinality(seen_edges) >= 4
  /\ pops > Cardinality(BackReach(graph, outputs))

\* with remove_split, a Split in the queue carries the number an element of
\* outputs was given, and is that element
QueuedSplitsAreOutputs ==
  remove_split =>
    \A e \in cands :
      IsSplit(graph, e[3]) => e[2] < Len(outputs) /\ outputs[e[2] + 1] = e[3]

\* an iteration of the loop adds no Split to the queue
LoopEnqueuesNoSplit ==
  (remove_split /\ pops' = pops + 1) =>
    \A e \in cands' \ cands : ~IsSplit(graph, e[3])

\* an iteration that takes the Split branch runs on outputs holding a Split
SplitBranchNeedsSplitOutput ==
  (Looping /\ cands # {} /\ RemovesSplit(remove_split, graph, Cand) /\ pops' = pops + 1)
    => ~NoSplitIn(outputs)

\* C20: with remove_split=True no iteration of the loop enqueues a Split; a
\* Split in the queue was enqueued from outputs, and the Split branch is
\* taken only when outputs holds a Split.
C20_NoSplitEnqueuedByLoop ==
  /\ []QueuedSplitsAreOutputs
  /\ [][LoopEnqueuesNoSplit /\ SplitBranchNeedsSplitOutput]_vars

C20_Witness ==
  /\ remove_split /\ pc = "done"
  /\ ~NoSplitIn(outputs)
  /\ \E i \in DOMAIN outputs : IsSplitOutput(graph, outputs[i])
  /\ pops > Len(outputs)

=============================================================================
